---- MODULE Spec2Model ----
(***************************************************************************)
(* Model of src/myapp/src/App.tsx: the rule-based severity detector        *)
(* (extractPercentage, checkLevel, detectAbuseLevel) and the App           *)
(* component's state with its handlers (login, logout, submit, begin-edit, *)
(* cancel-edit, delete) and its role-scoped projections (stats,            *)
(* displayedCases).                                                        *)
(*                                                                         *)
(* A JavaScript string is a sequence of symbols.  A symbol is one          *)
(* character (a digit, a blank, "%", "-", ".") or one Vietnamese syllable  *)
(* taken as a letter of the alphabet; the syllables of the keyword table   *)
(* do not contain one another, so substring search over symbols agrees     *)
(* with substring search over the characters of texts written with them.   *)
(* Syllables are written without their diacritics ("bam" for the bruising   *)
(* term of line 96, "xuoc nhe", "chay mau", ...): the twenty syllables of  *)
(* the keyword table stay pairwise distinct.                               *)
(***************************************************************************)
EXTENDS Integers, Sequences, FiniteSets, TLC

VARIABLES
    user,           \* useState<User | null>: the role of the logged-in user
    loginErr,       \* useState(""): whether the login error line is shown
    cases,          \* useState<CaseData[]>
    caseType,       \* form field
    childName,      \* form field (string)
    childAge,       \* form field (string)
    childGender,    \* form field
    content,        \* form field (string)
    editingCaseId,  \* useState<number | null>
    stats,          \* useMemo(..., [cases, user])
    now,            \* the clock: what Date.now() returned last, at least
    alertMsg,       \* what the last handler showed with alert(), or threw
    text,           \* argument of a direct call of detectAbuseLevel
    detection       \* its DetectionResult

vars == <<user, loginErr, cases, caseType, childName, childAge, childGender,
          content, editingCaseId, stats, now, alertMsg, text, detection>>

appVars == <<user, loginErr, cases, caseType, childName, childAge, childGender,
             content, editingCaseId, stats, now, alertMsg>>

(***************************************************************************)
(* Strings                                                                 *)
(***************************************************************************)
Digits == <<"0", "1", "2", "3", "4", "5", "6", "7", "8", "9">>

IsDigit(ch) == \E d \in 1..10 : Digits[d] = ch

DigitValue(ch) == (CHOOSE d \in 1..10 : Digits[d] = ch) - 1

\* \s of the regular expression and the class String.trim() removes
IsSpace(ch) == ch \in {" ", "\n"}

\* String.toLowerCase() on one symbol
LowerChar(ch) ==
    CASE ch = "A" -> "a"
      [] ch = "B" -> "b"
      [] ch = "BAM" -> "bam"
      [] ch = "Bam" -> "bam"
      [] ch = "Tre" -> "tre"
      [] ch = "XUOC" -> "xuoc"
      [] ch = "MAU" -> "mau"
      [] OTHER -> ch

ToLowerCase(s) == [i \in 1..Len(s) |-> LowerChar(s[i])]

TrimTo(s, keep) ==
    IF keep = {} THEN <<>>
    ELSE SubSeq(s, CHOOSE i \in keep : \A j \in keep : i <= j,
                   CHOOSE i \in keep : \A j \in keep : j <= i)

\* String.trim()
Trim(s) == TrimTo(s, {i \in 1..Len(s) : ~IsSpace(s[i])})

\* String.includes()
Includes(s, sub) ==
    \E i \in 0..(Len(s) - Len(sub)) : SubSeq(s, i + 1, i + Len(sub)) = sub

\* the least element of a non-empty set of indices
Least(indices) == CHOOSE i \in indices : \A j \in indices : i <= j

RECURSIVE DecimalValue(_)
DecimalValue(ds) ==
    IF Len(ds) = 0 THEN 0
    ELSE 10 * DecimalValue(SubSeq(ds, 1, Len(ds) - 1)) + DigitValue(ds[Len(ds)])

\* the last index before the first index of `stop`, the end of s without one
RunEnd(s, stop) == IF stop = {} THEN Len(s) ELSE Least(stop) - 1

\* the last index of the run of digits (of blanks) that starts at i; i - 1
\* when s[i] is none
DigitRunEnd(s, i) == RunEnd(s, {j \in i..Len(s) : ~IsDigit(s[j])})

SpaceRunEnd(s, i) == RunEnd(s, {j \in i..Len(s) : ~IsSpace(s[j])})

\* parseInt(s, 10): leading blanks, an optional sign, the longest digit run
ParseRun(s, b, e) ==
    IF e < b THEN [nan |-> TRUE, value |-> 0]
    ELSE [nan |-> FALSE, value |-> DecimalValue(SubSeq(s, b, e))]

ParseDigits(s, b) == ParseRun(s, b, DigitRunEnd(s, b))

Negated(r) == [nan |-> r.nan, value |-> 0 - r.value]

ParseSigned(s, a) ==
    IF a <= Len(s) /\ s[a] = "-" THEN Negated(ParseDigits(s, a + 1))
    ELSE IF a <= Len(s) /\ s[a] = "+" THEN ParseDigits(s, a + 1)
    ELSE ParseDigits(s, a)

ParseInt(s) == ParseSigned(s, SpaceRunEnd(s, 1) + 1)

RECURSIVE NumberToString(_)
\* Number.prototype.toString() of a non-negative integer
NumberToString(n) ==
    IF n < 10 THEN <<Digits[n + 1]>>
    ELSE NumberToString(n \div 10) \o <<Digits[(n % 10) + 1]>>

RECURSIVE Join(_, _)
\* Array.prototype.join(sep)
Join(strs, sep) ==
    IF Len(strs) = 0 THEN <<>>
    ELSE IF Len(strs) = 1 THEN strs[1]
    ELSE strs[1] \o sep \o Join(Tail(strs), sep)

(***************************************************************************)
(* Configuration                                                           *)
(***************************************************************************)
BruiseMinLow == 0
BruiseMaxLow == 20
BruiseMinMedium == 20
BruiseMaxMedium == 50
BruiseMinSerious == 50
BruiseMaxSerious == 100

ABUSE_INDICATORS ==
    [low |->
        [keywords |-> << <<"tray", " ", "xuoc">>, <<"tray", " ", "da">>,
                         <<"xuoc", " ", "nhe">>, <<"xuoc">> >>,
         bruisePercentage |-> [min |-> BruiseMinLow, max |-> BruiseMaxLow]],
     medium |->
        [keywords |-> << <<"bam", " ", "tim">>, <<"sung", " ", "tay">>,
                         <<"bam">>, <<"sung">> >>,
         bruisePercentage |-> [min |-> BruiseMinMedium, max |-> BruiseMaxMedium]],
     serious |->
        [keywords |-> << <<"chay", " ", "mau">>, <<"xuat", " ", "huyet">>,
                         <<"gay", " ", "xuong">>,
                         <<"vet", " ", "bam", " ", "lon">>,
                         <<"bao", " ", "hanh">>, <<"danh", " ", "dap">> >>,
         bruisePercentage |-> [min |-> BruiseMinSerious, max |-> BruiseMaxSerious]]]

\* the term checkLevel requires next to a percentage
BruiseTerm == <<"bam">>

NoSignalReasoning == <<"Khong phat hien dau hieu bat thuong">>

(***************************************************************************)
(* Detection logic                                                         *)
(***************************************************************************)
\* content.match(/(\d+)\s*%/): the leftmost start of a digit run that is
\* followed, after its longest continuation and any blanks, by "%"
PercentAfter(s, k) == k + 1 <= Len(s) /\ s[k + 1] = "%"

PercentMatchAt(s, i) ==
    IsDigit(s[i]) /\ PercentAfter(s, SpaceRunEnd(s, DigitRunEnd(s, i) + 1))

\* parseInt(percentMatch[1], 10)
PercentFrom(s, first) ==
    [isNull |-> FALSE,
     value |-> ParseInt(SubSeq(s, first, DigitRunEnd(s, first))).value]

PercentAmong(s, starts) ==
    IF starts = {} THEN [isNull |-> TRUE, value |-> 0]
    ELSE PercentFrom(s, Least(starts))

ExtractPercentage(s) == PercentAmong(s, {i \in 1..Len(s) : PercentMatchAt(s, i)})

SynthesizedKeyword(percentage) ==
    <<"bam", " ", "tim", " ">> \o NumberToString(percentage) \o <<"%">>

\* the keyword loop leaving at the first keyword found
LiteralKeywordsFirstOnly(normalized, indicators) ==
    LET found == SelectSeq(indicators.keywords,
                           LAMBDA keyword : Includes(normalized, keyword))
    IN  IF found = <<>> THEN <<>> ELSE <<Head(found)>>

\* the keywords of the rule found in the text, in the rule's order
LiteralKeywords(normalized, indicators) ==
    SelectSeq(indicators.keywords, LAMBDA keyword : Includes(normalized, keyword))

\* InRange with the lower bound of the range included
InRangeClosed(normalized, percentage, range) ==
    /\ ~percentage.isNull
    /\ Includes(normalized, BruiseTerm)
    /\ percentage.value >= range.min
    /\ percentage.value <= range.max

\* the range rule of checkLevel
InRange(normalized, percentage, range) ==
    /\ ~percentage.isNull
    /\ Includes(normalized, BruiseTerm)
    /\ percentage.value > range.min
    /\ percentage.value <= range.max

WithPercentage(literal, normalized, percentage, range) ==
    IF InRange(normalized, percentage, range)
    THEN Append(literal, SynthesizedKeyword(percentage.value))
    ELSE literal

LevelResult(matchedKeywords) ==
    IF Len(matchedKeywords) > 0
    THEN [found |-> TRUE, keywords |-> matchedKeywords,
          reasoning |-> <<"Phat hien: ">> \o Join(matchedKeywords, <<",", " ">>)]
    ELSE [found |-> FALSE, keywords |-> <<>>, reasoning |-> <<>>]

CheckLevel(normalized, indicators) ==
    LevelResult(WithPercentage(LiteralKeywords(normalized, indicators),
                               normalized, ExtractPercentage(normalized),
                               indicators.bruisePercentage))

Detected(level, match) ==
    [level |-> level, matchedKeywords |-> match.keywords,
     reasoning |-> match.reasoning]

\* FirstFound with the levels tried in the order of the table, low first
FirstFoundLowFirst(seriousMatch, mediumMatch, lowMatch) ==
    IF lowMatch.found THEN Detected("low", lowMatch)
    ELSE IF mediumMatch.found THEN Detected("medium", mediumMatch)
    ELSE IF seriousMatch.found THEN Detected("serious", seriousMatch)
    ELSE [level |-> "low", matchedKeywords |-> <<>>,
          reasoning |-> NoSignalReasoning]

\* FirstFound whose last return hands on the low check's empty result
FirstFoundNoDefault(seriousMatch, mediumMatch, lowMatch) ==
    IF seriousMatch.found THEN Detected("serious", seriousMatch)
    ELSE IF mediumMatch.found THEN Detected("medium", mediumMatch)
    ELSE Detected("low", lowMatch)

\* the three checks of detectAbuseLevel, the first found one returned
FirstFound(seriousMatch, mediumMatch, lowMatch) ==
    IF seriousMatch.found THEN Detected("serious", seriousMatch)
    ELSE IF mediumMatch.found THEN Detected("medium", mediumMatch)
    ELSE IF lowMatch.found THEN Detected("low", lowMatch)
    ELSE [level |-> "low", matchedKeywords |-> <<>>,
          reasoning |-> NoSignalReasoning]

DetectNormalized(normalized) ==
    FirstFound(CheckLevel(normalized, ABUSE_INDICATORS.serious),
               CheckLevel(normalized, ABUSE_INDICATORS.medium),
               CheckLevel(normalized, ABUSE_INDICATORS.low))

DetectAbuseLevel(str) == DetectNormalized(ToLowerCase(Trim(str)))

(***************************************************************************)
(* Inputs of the detector: up to MaxParts parts, each a phrase or a        *)
(* percentage, joined by blanks, bare or wrapped in white space.           *)
(***************************************************************************)
MaxParts == 2

Phrases ==
    { <<"bam", " ", "tim">>, <<"bam">>, <<"BAM">>, <<"sung">>,
      <<"Tre", " ", "bi", " ", "bam", " ", "tim">>,
      <<"xuoc", " ", "nhe">>, <<"tray", " ", "xuoc">>, <<"XUOC">>,
      <<"chay", " ", "mau">>, <<"vet", " ", "bam", " ", "lon">>,
      <<"vet">>, <<"Tre", " ", "bi">> }

PercentValues == {0, 1, 20, 21, 50, 51, 60, 100, 101}

Percentages ==
    {NumberToString(p) \o <<"%">> : p \in PercentValues}
        \cup { <<"6", "0", " ", "%">>, <<"0", "6", "0", "%">>, <<"6", "0">> }

Parts == Phrases \cup Percentages

JoinedTexts ==
    {Join(ps, <<" ">>) : ps \in UNION {[1..n -> Parts] : n \in 0..MaxParts}}

ClassifyTexts == JoinedTexts \cup {<<" ">> \o t \o <<"\n">> : t \in JoinedTexts}

\* no call of detectAbuseLevel has returned yet
Pending == [level |-> "pending", matchedKeywords |-> <<>>, reasoning |-> <<>>]

(***************************************************************************)
(* The App component                                                       *)
(***************************************************************************)
MaxCases == 2
MaxTime == 2
TicksPerDay == 86400000

USERS ==
    << [username |-> "admin", role |-> "admin"],
       [username |-> "user", role |-> "user"],
       [username |-> "organization", role |-> "organization"] >>

DEMO_PASSWORD == "123"

\* what the login form's two fields may hold when the button is pressed
UsernameInputs == {"admin", "user", "organization", "guest"}
PasswordInputs == {"123", "1234"}

\* what the case form's fields may be set to
NameInputs == { <<"A", "n">> }
AgeInputs == { <<"5">> }
ContentInputs == { <<"chay", " ", "mau">>, <<"bam">>, <<"xuoc">>, <<>> }
\* the two selects, kept at the options the reset form shows
TypeInputs == { "case_note" }
GenderInputs == { "male" }

\* editingCaseId is null: `editingCaseId && ...`, `editingCaseId || Date.now()`
NullId == 0

\* new Date().toISOString().slice(0, 10)
DateOf(t) == (t - 1) \div TicksPerDay

\* the statistics taken over every case, whatever the role
StatsUnfiltered(cs, u) == cs

\* the filter inside the stats memo
StatsFilteredCases(cs, u) ==
    IF u = "organization"
    THEN SelectSeq(cs, LAMBDA c : c.prediction = "serious")
    ELSE IF u = "user"
    THEN SelectSeq(cs, LAMBDA c : c.createdBy = "user" /\ c.lastEditedBy = "undefined")
    ELSE SelectSeq(cs, LAMBDA c : c.createdBy # "organization"
                                    /\ c.lastEditedBy # "organization")

\* the statistics whose total counts every stored case
ComputeStatsTotalOfStore(cs, u) ==
    LET filteredCases == StatsFilteredCases(cs, u)
    IN  [total |-> Len(cs),
         serious |-> Len(SelectSeq(filteredCases, LAMBDA c : c.prediction = "serious")),
         medium |-> Len(SelectSeq(filteredCases, LAMBDA c : c.prediction = "medium")),
         low |-> Len(SelectSeq(filteredCases, LAMBDA c : c.prediction = "low")),
         hasSerious |-> \E k \in 1..Len(filteredCases) :
                            filteredCases[k].prediction = "serious"
                                /\ filteredCases[k].notified]

ComputeStats(cs, u) ==
    LET filteredCases == StatsFilteredCases(cs, u)
    IN  [total |-> Len(filteredCases),
         serious |-> Len(SelectSeq(filteredCases, LAMBDA c : c.prediction = "serious")),
         medium |-> Len(SelectSeq(filteredCases, LAMBDA c : c.prediction = "medium")),
         low |-> Len(SelectSeq(filteredCases, LAMBDA c : c.prediction = "low")),
         hasSerious |-> \E k \in 1..Len(filteredCases) :
                            filteredCases[k].prediction = "serious"
                                /\ filteredCases[k].notified]

\* DisplayedCases without the branch for organization
DisplayedNoOrganizationBranch(cs, u) ==
    IF u = "user"
    THEN SelectSeq(cs, LAMBDA c : c.createdBy = "user" /\ c.lastEditedBy = "undefined")
    ELSE SelectSeq(cs, LAMBDA c : c.createdBy # "organization"
                                    /\ c.lastEditedBy # "organization")

\* DisplayedCases whose branch for user forgets lastEditedBy
DisplayedUserIgnoresEditor(cs, u) ==
    IF u = "organization"
    THEN SelectSeq(cs, LAMBDA c : c.prediction = "serious")
    ELSE IF u = "user"
    THEN SelectSeq(cs, LAMBDA c : c.createdBy = "user")
    ELSE SelectSeq(cs, LAMBDA c : c.createdBy # "organization"
                                    /\ c.lastEditedBy # "organization")

\* DisplayedCases whose last branch forgets lastEditedBy
DisplayedAdminIgnoresEditor(cs, u) ==
    IF u = "organization"
    THEN SelectSeq(cs, LAMBDA c : c.prediction = "serious")
    ELSE IF u = "user"
    THEN SelectSeq(cs, LAMBDA c : c.createdBy = "user" /\ c.lastEditedBy = "undefined")
    ELSE SelectSeq(cs, LAMBDA c : c.createdBy # "organization")

\* the rows of the table
DisplayedCases(cs, u) ==
    IF u = "organization"
    THEN SelectSeq(cs, LAMBDA c : c.prediction = "serious")
    ELSE IF u = "user"
    THEN SelectSeq(cs, LAMBDA c : c.createdBy = "user" /\ c.lastEditedBy = "undefined")
    ELSE SelectSeq(cs, LAMBDA c : c.createdBy # "organization"
                                    /\ c.lastEditedBy # "organization")

AppInit ==
    /\ user = "null"
    /\ loginErr = ""
    /\ cases = <<>>
    /\ caseType = "case_note"
    /\ childName = <<>>
    /\ childAge = <<>>
    /\ childGender = "male"
    /\ content = <<>>
    /\ editingCaseId = NullId
    /\ stats = ComputeStats(<<>>, "null")
    /\ now = 1
    /\ alertMsg = "none"

Init == AppInit /\ text = <<>> /\ detection = Pending

\* USERS.find((u) => u.username === username && password === DEMO_PASSWORD)
FindUser(username, password) ==
    LET hits == {k \in 1..Len(USERS) :
                    USERS[k].username = username /\ password = DEMO_PASSWORD}
    IN  IF hits = {} THEN "null"
        ELSE USERS[CHOOSE k \in hits : \A h \in hits : k <= h].role

\* handleLogin, the two fields holding one of `usernames` and of `passwords`
HandleLoginWith(usernames, passwords) ==
    /\ user = "null"
    /\ \E username \in usernames, password \in passwords :
        LET found == FindUser(username, password)
        IN  IF found # "null"
            THEN /\ user' = found
                 /\ loginErr' = ""
                 /\ stats' = ComputeStats(cases, found)
            ELSE /\ loginErr' = "Sai tai khoan hoac mat khau"
                 /\ UNCHANGED <<user, stats>>
    /\ alertMsg' = "none"
    /\ UNCHANGED <<cases, caseType, childName, childAge, childGender, content,
                   editingCaseId, now, text, detection>>

HandleLogin == HandleLoginWith(UsernameInputs, PasswordInputs)

\* the logout button: setUser(null) and nothing else
Logout ==
    /\ user # "null"
    /\ user' = "null"
    /\ stats' = ComputeStats(cases, "null")
    /\ alertMsg' = "none"
    /\ UNCHANGED <<loginErr, cases, caseType, childName, childAge, childGender,
                   content, editingCaseId, now, text, detection>>

\* onChange of the form's inputs, the new value being one of `inputs`
SetChildNameTo(inputs) ==
    /\ user # "null"
    /\ \E v \in inputs : childName' = v
    /\ alertMsg' = "none"
    /\ UNCHANGED <<user, loginErr, cases, caseType, childAge, childGender,
                   content, editingCaseId, stats, now, text, detection>>

SetChildAgeTo(inputs) ==
    /\ user # "null"
    /\ \E v \in inputs : childAge' = v
    /\ alertMsg' = "none"
    /\ UNCHANGED <<user, loginErr, cases, caseType, childName, childGender,
                   content, editingCaseId, stats, now, text, detection>>

SetContentTo(inputs) ==
    /\ user # "null"
    /\ \E v \in inputs : content' = v
    /\ alertMsg' = "none"
    /\ UNCHANGED <<user, loginErr, cases, caseType, childName, childAge,
                   childGender, editingCaseId, stats, now, text, detection>>

SetCaseTypeTo(inputs) ==
    /\ user # "null"
    /\ \E v \in inputs : caseType' = v
    /\ alertMsg' = "none"
    /\ UNCHANGED <<user, loginErr, cases, childName, childAge, childGender,
                   content, editingCaseId, stats, now, text, detection>>

SetChildGenderTo(inputs) ==
    /\ user # "null"
    /\ \E v \in inputs : childGender' = v
    /\ alertMsg' = "none"
    /\ UNCHANGED <<user, loginErr, cases, caseType, childName, childAge,
                   content, editingCaseId, stats, now, text, detection>>

SetChildName == SetChildNameTo(NameInputs)

SetChildAge == SetChildAgeTo(AgeInputs)

SetContent == SetContentTo(ContentInputs)

SetCaseType == SetCaseTypeTo(TypeInputs)

SetChildGender == SetChildGenderTo(GenderInputs)

\* the fields handleAddCase rejects before anything else
FieldsEmpty == Trim(childName) = <<>> \/ Trim(childAge) = <<>> \/ Trim(content) = <<>>

AgeInvalid == ParseInt(childAge).nan \/ ParseInt(childAge).value <= 0

\* handleAddCase without its check of the role
EditNeverForbidden(editing, role) == FALSE

\* `editingCaseId && user!.role === "user"`
EditForbidden(editing, role) == editing # NullId /\ role = "user"

\* cases.find((c) => c.id === editingCaseId)
FindCase(cs, id) ==
    LET hits == {k \in 1..Len(cs) : cs[k].id = id}
    IN  IF hits = {} THEN 0 ELSE Least(hits)

\* newCase that, on an edit, keeps the prediction the case had
CaseOfKeepsPrediction(detected, ageNum, t) ==
    [id |-> IF editingCaseId # NullId THEN editingCaseId ELSE t,
     type |-> caseType,
     childName |-> Trim(childName),
     childAge |-> ageNum,
     childGender |-> childGender,
     content |-> content,
     extracted |-> detected.reasoning,
     date |-> DateOf(t),
     prediction |-> IF editingCaseId # NullId
                    THEN cases[FindCase(cases, editingCaseId)].prediction
                    ELSE detected.level,
     notified |-> detected.level = "serious",
     matchedKeywords |-> detected.matchedKeywords,
     createdBy |-> IF editingCaseId # NullId
                   THEN cases[FindCase(cases, editingCaseId)].createdBy
                   ELSE user,
     lastEditedBy |-> IF editingCaseId # NullId THEN user ELSE "undefined"]

CaseOf(detected, ageNum, t) ==
    [id |-> IF editingCaseId # NullId THEN editingCaseId ELSE t,
     type |-> caseType,
     childName |-> Trim(childName),
     childAge |-> ageNum,
     childGender |-> childGender,
     content |-> content,
     extracted |-> detected.reasoning,
     date |-> DateOf(t),
     prediction |-> detected.level,
     notified |-> detected.level = "serious",
     matchedKeywords |-> detected.matchedKeywords,
     createdBy |-> IF editingCaseId # NullId
                   THEN cases[FindCase(cases, editingCaseId)].createdBy
                   ELSE user,
     lastEditedBy |-> IF editingCaseId # NullId THEN user ELSE "undefined"]

\* newCase, t being what the clock shows during the call
NewCase(t) == CaseOf(DetectAbuseLevel(content), ParseInt(childAge).value, t)

\* the duplicate check before the alert
ExistingCases ==
    SelectSeq(cases, LAMBDA c :
        /\ ToLowerCase(c.childName) = ToLowerCase(Trim(childName))
        /\ c.childAge = ParseInt(childAge).value
        /\ c.childGender = childGender
        /\ c.id # editingCaseId)

\* a store that puts a new case behind the others
StoredAtEnd(newCase) ==
    IF editingCaseId # NullId
    THEN [k \in 1..Len(cases) |->
             IF cases[k].id = editingCaseId THEN newCase ELSE cases[k]]
    ELSE cases \o <<newCase>>

\* a store that turns away the case of a child it already knows
StoredUnlessDuplicate(newCase) ==
    IF Len(ExistingCases) > 0 THEN cases
    ELSE IF editingCaseId # NullId
    THEN [k \in 1..Len(cases) |->
             IF cases[k].id = editingCaseId THEN newCase ELSE cases[k]]
    ELSE <<newCase>> \o cases

\* prev.map((c) => (c.id === editingCaseId ? newCase : c)), [newCase, ...prev]
Stored(newCase) ==
    IF editingCaseId # NullId
    THEN [k \in 1..Len(cases) |->
             IF cases[k].id = editingCaseId THEN newCase ELSE cases[k]]
    ELSE <<newCase>> \o cases

ResetForm ==
    /\ childName' = <<>>
    /\ childAge' = <<>>
    /\ childGender' = "male"
    /\ content' = <<>>
    /\ caseType' = "case_note"
    /\ editingCaseId' = NullId

Rejected(message) ==
    /\ alertMsg' = message
    /\ UNCHANGED <<cases, stats, caseType, childName, childAge, childGender,
                   content, editingCaseId, now>>

\* handleAddCase when the clock shows t
Submit(t) ==
    IF FieldsEmpty THEN Rejected("fields_empty")
    ELSE IF AgeInvalid THEN Rejected("age_invalid")
    ELSE IF EditForbidden(editingCaseId, user) THEN Rejected("edit_forbidden")
    ELSE IF editingCaseId # NullId /\ FindCase(cases, editingCaseId) = 0
    THEN \* `cases.find(...)!.createdBy` throws before any state is set
         Rejected("TypeError")
    ELSE /\ alertMsg' = IF Len(ExistingCases) > 0 THEN "duplicate"
                        ELSE IF editingCaseId # NullId THEN "updated"
                        ELSE "added"
         /\ cases' = Stored(NewCase(t))
         /\ stats' = ComputeStats(cases', user)
         /\ now' = t
         /\ ResetForm

\* The clock does not go back and need not advance between two calls; the
\* store is capped at MaxCases cases.
HandleAddCase ==
    /\ user # "null"
    /\ editingCaseId # NullId \/ Len(cases) < MaxCases
    /\ \E t \in now..MaxTime : Submit(t)
    /\ UNCHANGED <<user, loginErr, text, detection>>

\* The edit and delete buttons stand in the rows of displayedCases; they are
\* rendered for admin and organization only, and the handlers check the role
\* again, so the handlers are modelled for every role.
HandleEditCase ==
    /\ user # "null"
    /\ \E k \in 1..Len(DisplayedCases(cases, user)) :
        LET caseData == DisplayedCases(cases, user)[k]
        IN  IF user = "user"
            THEN /\ alertMsg' = "edit_forbidden"
                 /\ UNCHANGED <<editingCaseId, caseType, childName, childAge,
                                childGender, content>>
            ELSE /\ editingCaseId' = caseData.id
                 /\ caseType' = caseData.type
                 /\ childName' = caseData.childName
                 /\ childAge' = NumberToString(caseData.childAge)
                 /\ childGender' = caseData.childGender
                 /\ content' = caseData.content
                 /\ alertMsg' = "none"
    /\ UNCHANGED <<user, loginErr, cases, stats, now, text, detection>>

\* handleDeleteCase(id), the confirm dialog answered with `confirmed`
DeleteCase(id, confirmed) ==
    /\ user # "null"
    /\ IF user = "user"
       THEN /\ alertMsg' = "delete_forbidden"
            /\ UNCHANGED <<cases, stats>>
       ELSE IF confirmed
       THEN /\ cases' = SelectSeq(cases, LAMBDA c : c.id # id)
            /\ stats' = ComputeStats(cases', user)
            /\ alertMsg' = "deleted"
       ELSE alertMsg' = "none" /\ UNCHANGED <<cases, stats>>
    /\ UNCHANGED <<user, loginErr, caseType, childName, childAge, childGender,
                   content, editingCaseId, now, text, detection>>

\* the delete button of a row
HandleDeleteCase ==
    \E k \in 1..Len(DisplayedCases(cases, user)), confirmed \in BOOLEAN :
        DeleteCase(DisplayedCases(cases, user)[k].id, confirmed)

\* handleDeleteCase called with one of `ids`, stored or not
HandleDeleteCaseOf(ids) ==
    \E id \in ids, confirmed \in BOOLEAN : DeleteCase(id, confirmed)

\* the cancel-edit button
CancelEdit ==
    /\ editingCaseId # NullId
    /\ user \in {"admin", "organization"}
    /\ ResetForm
    /\ alertMsg' = "none"
    /\ UNCHANGED <<user, loginErr, cases, stats, now, text, detection>>

Next ==
    \/ HandleLogin
    \/ Logout
    \/ SetChildName
    \/ SetChildAge
    \/ SetContent
    \/ SetCaseType
    \/ SetChildGender
    \/ HandleAddCase
    \/ HandleEditCase
    \/ HandleDeleteCase
    \/ CancelEdit

Spec == Init /\ [][Next]_vars

InitClassify == AppInit /\ text \in ClassifyTexts /\ detection = Pending

Classify ==
    /\ detection = Pending
    /\ detection' = DetectAbuseLevel(text)
    /\ UNCHANGED <<appVars, text>>

NextClassify == Classify

SpecClassify == InitClassify /\ [][NextClassify]_vars

\* The component with the fields the validation has to sort out: blank
\* names and contents, and what the number input can hand over as an age.
ValidateNames == { <<"A", "n">>, <<" ">> }
ValidateAges == { <<"5">>, <<"0">>, <<"-", "1">>, <<"1", ".", "5">>, <<>> }
ValidateContents == { <<"xuoc">>, <<"\n">> }

NextValidate ==
    \/ HandleLogin
    \/ Logout
    \/ SetChildNameTo(ValidateNames)
    \/ SetChildAgeTo(ValidateAges)
    \/ SetContentTo(ValidateContents)
    \/ SetCaseType
    \/ SetChildGender
    \/ HandleAddCase
    \/ HandleEditCase
    \/ HandleDeleteCase
    \/ CancelEdit

SpecValidate == Init /\ [][NextValidate]_vars

\* The component with the children the duplicate check has to tell apart:
\* one name in two spellings, two ages, two genders.
DuplicateNames == { <<"A", "n">>, <<" ", "a", "n">> }
DuplicateAges == { <<"5">>, <<"6">> }
DuplicateGenders == { "male", "female" }
DuplicateContents == { <<"xuoc">> }
DuplicateUsers == { "admin" }

NextDuplicates ==
    \/ HandleLoginWith(DuplicateUsers, PasswordInputs)
    \/ Logout
    \/ SetChildNameTo(DuplicateNames)
    \/ SetChildAgeTo(DuplicateAges)
    \/ SetContentTo(DuplicateContents)
    \/ SetCaseType
    \/ SetChildGenderTo(DuplicateGenders)
    \/ HandleAddCase
    \/ HandleEditCase
    \/ HandleDeleteCase
    \/ CancelEdit

SpecDuplicates == Init /\ [][NextDuplicates]_vars

\* The component with handleDeleteCase called for any id a case may have.
IdInputs == 1..MaxTime

NextDelete ==
    \/ HandleLogin
    \/ Logout
    \/ SetChildName
    \/ SetChildAge
    \/ SetContent
    \/ SetCaseType
    \/ SetChildGender
    \/ HandleAddCase
    \/ HandleEditCase
    \/ HandleDeleteCaseOf(IdInputs)
    \/ CancelEdit

SpecDelete == Init /\ [][NextDelete]_vars

(***************************************************************************)
(* Properties of the detector, checked under SpecClassify                  *)
(***************************************************************************)
Normalized == ToLowerCase(Trim(text))

Returned == detection # Pending

\* a keyword of the level's rule occurs in the normalized text
KeywordHit(level) ==
    \E k \in 1..Len(ABUSE_INDICATORS[level].keywords) :
        Includes(Normalized, ABUSE_INDICATORS[level].keywords[k])

\* the text names the bruising term and a first percentage inside (lo, hi]
RangeHit(lo, hi) ==
    /\ Includes(Normalized, BruiseTerm)
    /\ ~ExtractPercentage(Normalized).isNull
    /\ ExtractPercentage(Normalized).value > lo
    /\ ExtractPercentage(Normalized).value <= hi

Satisfies(level) ==
    \/ KeywordHit(level)
    \/ level = "low" /\ RangeHit(0, 20)
    \/ level = "medium" /\ RangeHit(20, 50)
    \/ level = "serious" /\ RangeHit(50, 100)

MostSevere ==
    IF Satisfies("serious") THEN "serious"
    ELSE IF Satisfies("medium") THEN "medium"
    ELSE "low"

HasKeyword(keywords, keyword) == \E k \in 1..Len(keywords) : keywords[k] = keyword

\* C1: a text that satisfies the rules of more than one level is classified
\* at the most severe of them; one with a serious and a low keyword is serious.
C1_MostSevereWins ==
    Returned =>
        /\ Cardinality({l \in {"low", "medium", "serious"} : Satisfies(l)}) > 1
              => detection.level = MostSevere
        /\ KeywordHit("serious") /\ KeywordHit("low")
              => detection.level = "serious"

C1_Witness ==
    /\ Returned
    /\ KeywordHit("serious") /\ KeywordHit("low") /\ ~KeywordHit("medium")
    /\ detection.level = "serious"

\* the text is the bruising term "bam tim", a blank and p%, with 0 < p <= 20
BruiseUpTo20 ==
    \E p \in 1..20 :
        Trim(text) = <<"bam", " ", "tim", " ">> \o NumberToString(p) \o <<"%">>

\* C2: "bam tim p%" with 0 < p <= 20 and no other keyword is not classified
\* medium: it falls through to the low rule and the level is low.
C2_BruiseUpTo20IsLow ==
    Returned /\ BruiseUpTo20 => detection.level = "low"

\* C3: with the bruising term in the text and p its first percentage, the
\* result is serious with the synthesized entry "bam tim p%" among the matched
\* keywords exactly when 50 < p <= 100.
C3_SeriousRange ==
    Returned /\ Includes(Normalized, BruiseTerm)
             /\ ~ExtractPercentage(Normalized).isNull
        => LET p == ExtractPercentage(Normalized).value
           IN  (50 < p /\ p <= 100)
                  <=> /\ detection.level = "serious"
                      /\ HasKeyword(detection.matchedKeywords,
                                    <<"bam", " ", "tim", " ">>
                                        \o NumberToString(p) \o <<"%">>)

C3_Witness ==
    /\ text = <<"Tre", " ", "bi", " ", "bam", " ", "tim", " ", "6", "0", "%">>
    /\ detection.level = "serious"
    /\ HasKeyword(detection.matchedKeywords,
                  <<"bam", " ", "tim", " ", "6", "0", "%">>)

\* C4: the result is well-formed for every input: matchedKeywords is empty
\* exactly when no level's rule matches, and then (the empty string included)
\* the level is low with the no-signal reasoning; with a matched keyword the
\* reasoning is another one.
C4_WellFormed ==
    Returned =>
        /\ detection.level \in {"low", "medium", "serious"}
        /\ detection.matchedKeywords = <<>>
              <=> \A l \in {"low", "medium", "serious"} : ~Satisfies(l)
        /\ detection.matchedKeywords = <<>>
              => detection.level = "low" /\ detection.reasoning = NoSignalReasoning
        /\ detection.matchedKeywords # <<>>
              => detection.reasoning # NoSignalReasoning
        /\ Trim(text) = <<>>
              => detection = [level |-> "low", matchedKeywords |-> <<>>,
                              reasoning |-> NoSignalReasoning]

C4_Witness ==
    /\ text = <<>>
    /\ detection = [level |-> "low", matchedKeywords |-> <<>>,
                    reasoning |-> NoSignalReasoning]

(***************************************************************************)
(* Properties of the App component, checked under Spec                     *)
(***************************************************************************)
FormValid == ~FieldsEmpty /\ ~AgeInvalid

\* a step of role user that tries to begin an edit, submit an update or delete
UserAttempt ==
    /\ user = "user"
    /\ \/ HandleEditCase
       \/ HandleDeleteCase
       \/ editingCaseId # NullId /\ HandleAddCase

Created ==
    /\ Len(cases') = Len(cases) + 1
    /\ Tail(cases') = cases
    /\ cases'[1].createdBy = user
    /\ cases'[1].lastEditedBy = "undefined"

\* C6: creating needs no special role: whenever role user submits a valid
\* form, and whenever another role that is not editing a case does, a new
\* case with createdBy = the role is added to the store.
C6_CreateNeedsNoRole ==
    [][(/\ HandleAddCase
        /\ FormValid
        /\ user = "user" \/ editingCaseId = NullId) => Created]_vars

Serious(cs) == {k \in 1..Len(cs) : cs[k].prediction = "serious"}

\* the indices of cs whose case is a row of `rows`, and the rows are cases
\* of cs in the order of cs
RowsAre(rows, cs, indices) ==
    /\ Len(rows) = Cardinality(indices)
    /\ \A k \in 1..Len(cs) : k \in indices <=> \E j \in 1..Len(rows) : rows[j] = cs[k]
    /\ \A j \in 1..Len(rows) : \E k \in indices : rows[j] = cs[k]

\* C7: the cases role organization sees are exactly the cases of prediction
\* serious, whoever created or edited them.
C7_OrganizationSeesSerious ==
    /\ RowsAre(DisplayedCases(cases, "organization"), cases, Serious(cases))
    /\ \A j \in 1..Len(DisplayedCases(cases, "organization")) :
          DisplayedCases(cases, "organization")[j].prediction = "serious"

\* a mixed list: a serious case not created by organization, and another one
C7_Witness ==
    /\ user = "organization"
    /\ \E k \in 1..Len(cases) :
          cases[k].prediction = "serious" /\ cases[k].createdBy = "user"
              /\ cases[k].lastEditedBy = "admin"
    /\ \E k \in 1..Len(cases) : cases[k].prediction # "serious"

OwnUnedited(cs) ==
    {k \in 1..Len(cs) : cs[k].createdBy = "user" /\ cs[k].lastEditedBy = "undefined"}

\* no step takes lastEditedBy back to unset: a case that is unedited after the
\* step is the one the step created or was there, unedited, before it
EditorStays ==
    /\ \A k \in 1..Len(cases') :
          cases'[k].lastEditedBy = "undefined"
              => \/ \E j \in 1..Len(cases) : cases[j] = cases'[k]
                 \/ k = 1 /\ Len(cases') = Len(cases) + 1
    /\ Len(cases') = Len(cases)
          => \A k \in 1..Len(cases) :
                cases[k].lastEditedBy # "undefined"
                    => /\ cases'[k].lastEditedBy # "undefined"
                       /\ cases'[k].id = cases[k].id

\* C8: the cases role user sees are exactly those with createdBy = user and
\* lastEditedBy unset, and lastEditedBy, once set, is never reset: an edited
\* case is not seen by role user again.
C8_UserSeesOwnUnedited ==
    /\ [](RowsAre(DisplayedCases(cases, "user"), cases, OwnUnedited(cases)))
    /\ [][EditorStays]_vars

\* role user is logged in and a case of role user, since edited, is hidden
C8_Witness ==
    /\ user = "user"
    /\ \E k \in 1..Len(cases) :
          /\ cases[k].createdBy = "user"
          /\ cases[k].lastEditedBy = "admin"
          /\ \A j \in 1..Len(DisplayedCases(cases, user)) :
                DisplayedCases(cases, user)[j] # cases[k]
    /\ Len(DisplayedCases(cases, user)) = 1

NotOrganization(cs) ==
    {k \in 1..Len(cs) :
        cs[k].createdBy # "organization" /\ cs[k].lastEditedBy # "organization"}

\* C9: the cases role admin sees, in the list and in the statistics, are
\* exactly those neither created nor last edited by organization.
C9_AdminSeesNoOrganization ==
    /\ RowsAre(DisplayedCases(cases, "admin"), cases, NotOrganization(cases))
    /\ RowsAre(StatsFilteredCases(cases, "admin"), cases, NotOrganization(cases))
    /\ user = "admin" => stats.total = Cardinality(NotOrganization(cases))

\* admin sees one case and not the one organization edited last
C9_Witness ==
    /\ user = "admin"
    /\ Len(cases) = 2
    /\ stats.total = 1
    /\ \E k \in 1..Len(cases) :
          cases[k].createdBy = "admin" /\ cases[k].lastEditedBy = "organization"

\* C10: for every logged-in role the statistics count the cases the list
\* shows: the same cases, and stats.total is the number of rows.
C10_StatsCountDisplayed ==
    user # "null" =>
        /\ StatsFilteredCases(cases, user) = DisplayedCases(cases, user)
        /\ stats.total = Len(DisplayedCases(cases, user))

C10_Witness ==
    /\ user = "organization"
    /\ Len(cases) = 2
    /\ stats.total = 1
    /\ Len(DisplayedCases(cases, user)) = 1

\* the number of rows of the given prediction
CountOf(rows, level) == Cardinality({k \in 1..Len(rows) : rows[k].prediction = level})

\* C11: the statistics count the visible cases by severity, the three counts
\* add up to the total, and hasSerious is true exactly when the serious count
\* is greater than zero.
C11_StatsPartition ==
    /\ stats.total = stats.serious + stats.medium + stats.low
    /\ stats.hasSerious <=> stats.serious > 0
    /\ \A level \in {"serious", "medium", "low"} :
          stats[level] = CountOf(DisplayedCases(cases, user), level)

\* role user sees and counts its medium case; the serious one is hidden from it
C11_Witness ==
    /\ user = "user"
    /\ Len(cases) = 2
    /\ stats = [total |-> 1, serious |-> 0, medium |-> 1, low |-> 0,
                hasSerious |-> FALSE]
    /\ \E k \in 1..Len(cases) : cases[k].prediction = "serious"

\* the derived fields of a case are those of its content
DerivedFrom(c, detected) ==
    /\ c.prediction = detected.level
    /\ c.extracted = detected.reasoning
    /\ c.matchedKeywords = detected.matchedKeywords
    /\ c.notified <=> c.prediction = "serious"

\* C12: every stored case, created or edited, has prediction, extracted and
\* matchedKeywords equal to the level, reasoning and matchedKeywords the
\* detector gives for its current content, and is notified exactly when its
\* prediction is serious.
C12_DerivedFieldsConsistent ==
    \A k \in 1..Len(cases) : DerivedFrom(cases[k], DetectAbuseLevel(cases[k].content))

\* an edited case that is serious beside an unedited one that is not
C12_Witness ==
    /\ \E k \in 1..Len(cases) :
          /\ cases[k].lastEditedBy = "organization"
          /\ cases[k].prediction = "serious" /\ cases[k].notified
          /\ cases[k].content = <<"chay", " ", "mau">>
    /\ \E k \in 1..Len(cases) :
          /\ cases[k].lastEditedBy = "undefined"
          /\ cases[k].prediction = "medium" /\ ~cases[k].notified
          /\ cases[k].matchedKeywords = << <<"bam">> >>

\* the step rewrote the case being edited: the editor is admin or
\* organization and becomes its lastEditedBy, every case keeps its place, its
\* id and its createdBy, and the other cases are left as they were
Edited ==
    /\ editingCaseId # NullId
    /\ user \in {"admin", "organization"}
    /\ Len(cases') = Len(cases)
    /\ \A k \in 1..Len(cases) :
          /\ cases'[k].id = cases[k].id
          /\ cases'[k].createdBy = cases[k].createdBy
          /\ IF cases[k].id = editingCaseId
             THEN cases'[k].lastEditedBy = user
             ELSE cases'[k] = cases[k]

\* the step only took cases out of the store
Removed ==
    \E keep \in SUBSET (1..Len(cases)) :
        cases' = SelectSeq([k \in 1..Len(cases) |-> IF k \in keep THEN cases[k] ELSE <<>>],
                           LAMBDA c : c # <<>>)

\* C13: a case is created with createdBy = the submitter's role and
\* lastEditedBy unset; an edit sets lastEditedBy to the editor's role, which is
\* admin or organization, and no step changes the id or the createdBy of a
\* case that stays in the store.
C13_ProvenanceKept ==
    [][cases' # cases =>
          \/ editingCaseId = NullId /\ HandleAddCase /\ Created
          \/ HandleAddCase /\ Edited
          \/ HandleDeleteCase /\ Removed]_vars

UniqueIds(cs) == \A j, k \in 1..Len(cs) : cs[j].id = cs[k].id => j = k

\* C15: no two cases of the store have the same id, whatever creations,
\* edits and deletions led to it.
C15_UniqueIds == UniqueIds(cases)

Blank(s) == Trim(s) = <<>>

\* the field is the decimal numeral of an integer >= 1
IsPositiveInteger(s) ==
    /\ s # <<>>
    /\ \A k \in 1..Len(s) : IsDigit(s[k])
    /\ DecimalValue(s) >= 1

InvalidForm ==
    Blank(childName) \/ Blank(childAge) \/ Blank(content) \/ ~IsPositiveInteger(childAge)

\* C14: a submission whose name, age or content is blank, or whose age is not
\* a positive integer, is rejected with a validation error and leaves the
\* store as it was; every stored case has a non-empty name, a non-empty
\* content and an age >= 1.
C14_InvalidRejected ==
    /\ [](\A k \in 1..Len(cases) :
            cases[k].childName # <<>> /\ cases[k].content # <<>> /\ cases[k].childAge >= 1)
    /\ [][HandleAddCase /\ InvalidForm =>
             cases' = cases /\ alertMsg' \in {"fields_empty", "age_invalid"}]_vars

EqualIgnoringCase(a, b) ==
    /\ Len(a) = Len(b)
    /\ \A i \in 1..Len(a) : LowerChar(a[i]) = LowerChar(b[i])

\* the stored case at k is about the child of the form
SameChild(k) ==
    /\ EqualIgnoringCase(cases[k].childName, Trim(childName))
    /\ cases[k].childAge = ParseInt(childAge).value
    /\ cases[k].childGender = childGender

\* the cases of cs at the given indices, in the order of cs
Restricted(cs, indices) ==
    LET at == SelectSeq([k \in 1..Len(cs) |-> k], LAMBDA k : k \in indices)
    IN  [j \in 1..Len(at) |-> cs[at[j]]]

\* where the case being edited may stand in the store; 0 when none is edited
EditedAt ==
    IF editingCaseId = NullId THEN {0}
    ELSE {k \in 1..Len(cases) : cases[k].id = editingCaseId}

\* the submission went through
Accepted == alertMsg' \in {"added", "updated", "duplicate"}

\* C16: on a submission that goes through, the duplicate check gives exactly
\* the stored cases, other than the one case being edited, whose name is the
\* trimmed name of the form up to letter case and whose age and gender are
\* those of the form; the submitter is told of duplicates exactly when there
\* is such a case.
C16_DuplicatesCorrelated ==
    [][HandleAddCase /\ Accepted =>
          \E e \in EditedAt :
              LET others == {k \in 1..Len(cases) : SameChild(k) /\ k # e}
              IN  /\ ExistingCases = Restricted(cases, others)
                  /\ alertMsg' = "duplicate" <=> others # {}]_vars

\* the case holds what the form holds
FromForm(c) ==
    /\ c.type = caseType
    /\ c.childName = Trim(childName)
    /\ c.childAge = ParseInt(childAge).value
    /\ c.childGender = childGender
    /\ c.content = content

\* a create or an update the handler has no reason to refuse
ValidSubmission ==
    /\ FormValid
    /\ editingCaseId # NullId =>
          user \in {"admin", "organization"} /\ FindCase(cases, editingCaseId) # 0

\* the store after the step: the case of the form put in front of the others,
\* or put in the place of the case being edited, and no other case touched
StoredAsSubmitted ==
    IF editingCaseId = NullId
    THEN /\ Len(cases') = Len(cases) + 1
         /\ Tail(cases') = cases
         /\ FromForm(cases'[1])
    ELSE /\ Len(cases') = Len(cases)
         /\ \A k \in 1..Len(cases) :
               IF cases[k].id = editingCaseId
               THEN FromForm(cases'[k]) /\ cases'[k].id = cases[k].id
               ELSE cases'[k] = cases[k]

\* C17: the duplicate check never blocks or merges: a valid create or update
\* changes the store in the same way whether or not the child is already
\* known; a create adds one case and leaves the duplicates as they were.
C17_DuplicatesNeverBlock ==
    [][HandleAddCase /\ ValidSubmission => StoredAsSubmitted]_vars

\* a second case of a child has just been added beside the first
C17_Witness ==
    /\ alertMsg = "duplicate"
    /\ Len(cases) = 2
    /\ EqualIgnoringCase(cases[1].childName, cases[2].childName)
    /\ cases[1].childAge = cases[2].childAge
    /\ cases[1].childGender = cases[2].childGender
    /\ cases[1].lastEditedBy = "undefined"
    /\ cases[1].id # cases[2].id

\* ids are creation timestamps: no case stands before one created after it
NewestFirst(rows) ==
    \A j, k \in 1..Len(rows) : j < k => rows[j].id >= rows[k].id

\* the rows are cases of the store, in the order of the store
InStoreOrder(rows) ==
    \E indices \in SUBSET (1..Len(cases)) : rows = Restricted(cases, indices)

\* the step left every case at its place, whatever it wrote into it
PlacesKept ==
    /\ Len(cases') = Len(cases)
    /\ \A k \in 1..Len(cases) : cases'[k].id = cases[k].id

\* C18: the list is ordered most-recent-first for every role: of two cases the
\* one created later stands earlier; a creation puts the case in front, and
\* edits and deletions keep the order of the cases that stay.
C18_MostRecentFirst ==
    /\ [](\A role \in {"admin", "user", "organization"} :
            /\ NewestFirst(DisplayedCases(cases, role))
            /\ InStoreOrder(DisplayedCases(cases, role)))
    /\ [][cases' # cases =>
             \/ Len(cases') = Len(cases) + 1 /\ Tail(cases') = cases
             \/ PlacesKept
             \/ Removed]_vars

\* the older of two cases has been edited and still stands behind the newer
C18_Witness ==
    /\ user = "admin"
    /\ Len(DisplayedCases(cases, user)) = 2
    /\ DisplayedCases(cases, user)[1].id > DisplayedCases(cases, user)[2].id
    /\ DisplayedCases(cases, user)[1].lastEditedBy = "undefined"
    /\ DisplayedCases(cases, user)[2].lastEditedBy = "admin"

\* handleDeleteCase, confirmed by admin or organization, for an id no stored
\* case has
DeleteAbsent ==
    /\ user \in {"admin", "organization"}
    /\ \E id \in IdInputs : FindCase(cases, id) = 0 /\ DeleteCase(id, TRUE)

ExpectedKeywords(level) ==
    LET rule == ABUSE_INDICATORS[level]
        literal == Restricted(rule.keywords,
                              {k \in 1..Len(rule.keywords) :
                                  Includes(Normalized, rule.keywords[k])})
    IN  IF RangeHit(rule.bruisePercentage.min, rule.bruisePercentage.max)
        THEN literal \o << <<"bam", " ", "tim", " ">>
                             \o NumberToString(ExtractPercentage(Normalized).value)
                             \o <<"%">> >>
        ELSE literal

\* C20: matchedKeywords are exactly the keywords of the returned level's rule
\* that occur in the normalized text, in the rule's order, followed by the
\* synthesized percentage entry if that level's range rule matched; nothing of
\* another level is among them.
C20_MatchedKeywordsOfLevel ==
    Returned => detection.matchedKeywords = ExpectedKeywords(detection.level)

\* "vet xuoc nhe" gives low with the two keywords in the rule's order
C20_Witness ==
    /\ text = <<"vet", " ", "xuoc", " ", "nhe">>
    /\ detection.level = "low"
    /\ detection.matchedKeywords = << <<"xuoc", " ", "nhe">>, <<"xuoc">> >>

(***************************************************************************)
(* The edit in progress, checked under Spec                                *)
(***************************************************************************)
\* C21: whenever editingCaseId is set, the store holds a case with that id,
\* so a submitted update always finds the case being edited, whatever
\* begin-edit, delete, submit, cancel, login and logout steps came before.
C21_EditTargetStored ==
    /\ [](editingCaseId # NullId => FindCase(cases, editingCaseId) # 0)
    /\ [][HandleAddCase /\ editingCaseId # NullId => alertMsg' # "TypeError"]_vars

\* the case is a row of the list the logged-in role is shown
VisibleToUser(c) ==
    \E j \in 1..Len(DisplayedCases(cases, user)) : DisplayedCases(cases, user)[j] = c

\* every case the step rewrote or removed was visible to the role
MutatedVisible ==
    /\ Len(cases') = Len(cases)
          => \A k \in 1..Len(cases) : cases'[k] # cases[k] => VisibleToUser(cases[k])
    /\ Len(cases') < Len(cases)
          => \A k \in 1..Len(cases) :
                (\A j \in 1..Len(cases') : cases'[j].id # cases[k].id)
                    => VisibleToUser(cases[k])

\* C22: a case is edited or deleted only by a role that is shown the case at
\* that moment, and no edit target is set while nobody is logged in, so an
\* edit begun by one role is never completed by another after logout and
\* login.
C22_MutationByViewerOnly ==
    /\ [](user = "null" => editingCaseId = NullId)
    /\ [][HandleAddCase \/ HandleDeleteCase => MutatedVisible]_vars

====
